---- MODULE Spec2Model ----
(***************************************************************************)
(* Live state reconciliation core of the Spacebot control interface:       *)
(* the Dashboard component (per-channel live state, history load effect,   *)
(* merge on load, SSE handlers) together with the durable message log and  *)
(* the event stream it consumes.                                           *)
(***************************************************************************)
EXTENDS Integers, Sequences, FiniteSets, TLC

\* ---------------------------------------------------------------- bounds
Channels == {"c1", "c2"}
MaxClock == 2          \* largest value of the browser clock Date.now()
MaxServerClock == 2    \* largest value of the server clock (created_at)
MaxServerMessages == 2 \* messages the server creates during the session

\* ---------------------------------------------------- program constants
MAX_MESSAGES == 50

UNDEFINED == "undefined"
NULL == "null"

VARIABLES
    liveStates,   \* useState<Record<string, ChannelLiveState>>
    fetch,        \* per channel: the api.channelMessages promise and its closure
    fetchCount,   \* per channel: number of api.channelMessages calls issued
    clock,        \* Date.now() of the browser
    rnd,          \* number of Math.random() draws so far (each draw is fresh)
    serverClock,  \* CURRENT_TIMESTAMP of the server
    log,          \* conversation_messages, per channel, ascending created_at
    nextSid,      \* next message number the server assigns
    invalidations,\* number of invalidateQueries({queryKey: ["channels"]}) calls
    \* ---- useEventSource
    handlersRef,      \* handlersRef.current: event type -> handler (the render that made it)
    renders,          \* number of renders of the hook so far
    phase,            \* "init", "active" (effect ran), "disabled", "closed" (cleanup ran)
    sources,          \* every EventSource created, in creation order
    eventSourceRef,   \* eventSourceRef.current: index into sources, 0 when unset
    reconnectTimeout, \* reconnectTimeout.current: id of the last timer, 0 when unset
    timers,           \* timers scheduled with setTimeout and neither fired nor cleared
    frames,           \* number of frames the browser delivered so far
    calls             \* handler invocations, in order

storeVars == <<liveStates, fetch, fetchCount, clock, rnd, serverClock, log, nextSid,
               invalidations>>
streamVars == <<handlersRef, renders, phase, sources, eventSourceRef,
                reconnectTimeout, timers, frames, calls>>
vars == <<liveStates, fetch, fetchCount, clock, rnd, serverClock, log, nextSid,
          invalidations, handlersRef, renders, phase, sources, eventSourceRef,
          reconnectTimeout, timers, frames, calls>>

\* ------------------------------------------------------------- helpers
\* Array.prototype.slice(-n): the last n elements
SliceLastDropNewest(s, n) == IF Len(s) <= n THEN s ELSE SubSeq(s, 1, n)
SliceLast(s, n) == IF Len(s) <= n THEN s ELSE SubSeq(s, Len(s) - n + 1, Len(s))

\* Array.prototype.filter((m) => m.timestamp > ts)
RECURSIVE FilterNewerOrEqual(_, _)
FilterNewerOrEqual(s, ts) ==
    IF s = <<>> THEN <<>>
    ELSE IF Head(s).timestamp >= ts
         THEN <<Head(s)>> \o FilterNewerOrEqual(Tail(s), ts)
         ELSE FilterNewerOrEqual(Tail(s), ts)
RECURSIVE FilterNewer(_, _)
FilterNewer(s, ts) ==
    IF s = <<>> THEN <<>>
    ELSE IF Head(s).timestamp > ts
         THEN <<Head(s)>> \o FilterNewer(Tail(s), ts)
         ELSE FilterNewer(Tail(s), ts)

\* { ...prev, [channelId]: state }
WithChannel(ls, channelId, state) ==
    [k \in DOMAIN ls \cup {channelId} |-> IF k = channelId THEN state ELSE ls[k]]

\* prev[channelId] ?? { isTyping: false, messages: [], historyLoaded: false }
EmptyLiveState == [isTyping |-> FALSE, messages |-> <<>>, historyLoaded |-> FALSE]
StateOf(ls, channelId) ==
    IF channelId \in DOMAIN ls THEN ls[channelId] ELSE EmptyLiveState

\* prev[channel.id]?.historyLoaded
HistoryLoaded(ls, channelId) ==
    channelId \in DOMAIN ls /\ ls[channelId].historyLoaded

\* --------------------------------------------------- durable message log
ChanBase(c) == IF c = "c1" THEN 100 ELSE 200

\* a row of conversation_messages as served by GET /api/channels/messages
Row(n, role, created_at) ==
    [id |-> n, role |-> role, sender_name |-> NULL,
     sender_id |-> IF role = "user" THEN "u1" ELSE NULL,
     content |-> n, created_at |-> created_at]

\* the log a channel holds when the dashboard starts: n rows created at time 1
InitialLog(c, n) ==
    [i \in 1..n |-> Row(ChanBase(c) + i, IF i % 2 = 1 THEN "user" ELSE "assistant", 1)]

\* c1 is an established channel whose log fills a whole history page, c2 is new
InitialLogLen(c) == IF c = "c1" THEN MAX_MESSAGES ELSE 0

\* GET /api/channels/messages?channel_id=c&limit=n : tail n, ascending
ChannelMessagesResponse(c, limit) == SliceLast(log[c], limit)

\* ------------------------------------------------------ the view messages
\* the ChatMessage built from a history row
HistoryMessage(message) ==
    [id |-> [kind |-> "srv", ts |-> 0, rnd |-> message.id],
     sender |-> IF message.role = "user" THEN "user" ELSE "bot",
     senderName |-> IF message.sender_name # NULL THEN message.sender_name
                    ELSE IF message.role = "user" /\ message.sender_id # NULL
                         THEN message.sender_id ELSE UNDEFINED,
     text |-> message.content,
     timestamp |-> message.created_at]

HistoryOf(data) == [i \in 1..Len(data) |-> HistoryMessage(data[i])]

\* status: the state of the promise; data: the response body; prev: the messages
\* of `prev` the closure captured at dispatch; seen: the messages the merge
\* updater read from `current`; rndAtMerge: the value of rnd when it ran
NoFetch == [status |-> "none", data |-> <<>>, prev |-> <<>>, seen |-> <<>>,
            rndAtMerge |-> 0]

Init ==
    /\ liveStates = << >>
    /\ fetch = [c \in Channels |-> NoFetch]
    /\ fetchCount = [c \in Channels |-> 0]
    /\ clock = 1
    /\ rnd = 0
    /\ serverClock = 1
    /\ log = [c \in Channels |-> InitialLog(c, InitialLogLen(c))]
    /\ nextSid = 1
    /\ invalidations = 0
    /\ handlersRef = << >>
    /\ renders = 0
    /\ phase = "init"
    /\ sources = << >>
    /\ eventSourceRef = 0
    /\ reconnectTimeout = 0
    /\ timers = {}
    /\ frames = 0
    /\ calls = << >>

\* ------------------------------------------------------------ environment
Tick ==
    /\ clock < MaxClock
    /\ clock' = clock + 1
    /\ UNCHANGED streamVars
    /\ UNCHANGED invalidations
    /\ UNCHANGED <<liveStates, fetch, fetchCount, rnd, serverClock,
                   log, nextSid>>

ServerTick ==
    /\ serverClock < MaxServerClock
    /\ serverClock' = serverClock + 1
    /\ UNCHANGED streamVars
    /\ UNCHANGED invalidations
    /\ UNCHANGED <<liveStates, fetch, fetchCount, clock, rnd,
                   log, nextSid>>

\* the server answers the history request with the tail of the log as it is now
ServerRespond(c) ==
    /\ fetch[c].status = "pending"
    /\ fetch' = [fetch EXCEPT ![c].status = "fulfilled",
                              ![c].data = ChannelMessagesResponse(c, MAX_MESSAGES)]
    /\ UNCHANGED streamVars
    /\ UNCHANGED invalidations
    /\ UNCHANGED <<liveStates, fetchCount, clock, rnd, serverClock,
                   log, nextSid>>

\* ------------------------------------------------- history load effect
\* if (prev[channel.id]?.historyLoaded) return prev;
SkipsLoadNever(ls, channelId) == FALSE
SkipsLoad(ls, channelId) == HistoryLoaded(ls, channelId)

\* const updated = { ...prev, [channel.id]: { ..., historyLoaded: true } }
MarkLoadingNotSet(ls, channelId) ==
    WithChannel(ls, channelId,
        [isTyping |-> StateOf(ls, channelId).isTyping,
         messages |-> StateOf(ls, channelId).messages,
         historyLoaded |-> FALSE])
MarkLoading(ls, channelId) ==
    WithChannel(ls, channelId,
        [isTyping |-> IF channelId \in DOMAIN ls THEN ls[channelId].isTyping ELSE FALSE,
         messages |-> IF channelId \in DOMAIN ls THEN ls[channelId].messages ELSE <<>>,
         historyLoaded |-> TRUE])

\* the updater run once for every channel of the list, in list order; the
\* updaters of different channels touch different keys
RECURSIVE EffectStates(_, _)
EffectStates(ls, list) ==
    IF list = {} THEN ls
    ELSE LET c == CHOOSE x \in list : TRUE
             next == IF SkipsLoad(ls, c) THEN ls ELSE MarkLoading(ls, c)
         IN EffectStates(next, list \ {c})

\* useEffect(() => { for (const channel of channels) setLiveStates(...) }, [channels])
HistoryLoadEffect(list) ==
    /\ liveStates' = EffectStates(liveStates, list)
    /\ fetch' = [c \in Channels |->
                   IF c \in list /\ ~SkipsLoad(liveStates, c)
                   THEN [status |-> "pending", data |-> <<>>,
                         prev |-> StateOf(liveStates, c).messages, seen |-> <<>>,
                         rndAtMerge |-> 0]
                   ELSE fetch[c]]
    /\ fetchCount' = [c \in Channels |->
                   IF c \in list /\ ~SkipsLoad(liveStates, c)
                   THEN fetchCount[c] + 1 ELSE fetchCount[c]]
    /\ UNCHANGED streamVars
    /\ UNCHANGED invalidations
    /\ UNCHANGED <<clock, rnd, serverClock, log, nextSid>>

\* setLiveStates((current) => ...) of the .then callback
LastHistoryTs(history) ==
    IF Len(history) > 0 THEN history[Len(history)].timestamp ELSE 0

MergeHistoryAtDispatch(current, channelId, history) ==
    IF channelId \notin DOMAIN current THEN current
    ELSE WithChannel(current, channelId,
            [current[channelId] EXCEPT !.messages =
                SliceLast(history \o FilterNewer(fetch[channelId].prev, LastHistoryTs(history)),
                          MAX_MESSAGES)])
MergeHistory(current, channelId, history) ==
    IF channelId \notin DOMAIN current THEN current
    ELSE LET existing == current[channelId]
             sseMessages == existing.messages
             lastHistoryTs == LastHistoryTs(history)
             newSseMessages == FilterNewer(sseMessages, lastHistoryTs)
         IN WithChannel(current, channelId,
                [existing EXCEPT !.messages =
                    SliceLast(history \o newSseMessages, MAX_MESSAGES)])

\* api.channelMessages(...).then((data) => { ... })
FetchThen(c) ==
    /\ fetch[c].status = "fulfilled"
    /\ liveStates' = MergeHistory(liveStates, c, HistoryOf(fetch[c].data))
    /\ fetch' = [fetch EXCEPT ![c].status = "merged",
                              ![c].seen = StateOf(liveStates, c).messages,
                              ![c].rndAtMerge = rnd]
    /\ UNCHANGED streamVars
    /\ UNCHANGED invalidations
    /\ UNCHANGED <<fetchCount, clock, rnd, serverClock, log, nextSid>>

\* the request fails: .catch((error) => console.warn(...))
FetchCatchClearsMarker(c) ==
    /\ fetch[c].status = "pending"
    /\ fetch' = [fetch EXCEPT ![c].status = "failed"]
    /\ liveStates' = WithChannel(liveStates, c,
                        [StateOf(liveStates, c) EXCEPT !.historyLoaded = FALSE])
    /\ UNCHANGED streamVars
    /\ UNCHANGED invalidations
    /\ UNCHANGED <<fetchCount, clock, rnd, serverClock, log, nextSid>>
FetchCatch(c) ==
    /\ fetch[c].status = "pending"
    /\ fetch' = [fetch EXCEPT ![c].status = "failed"]
    /\ UNCHANGED streamVars
    /\ UNCHANGED invalidations
    /\ UNCHANGED <<liveStates, fetchCount, clock, rnd, serverClock,
                   log, nextSid>>

\* ------------------------------------------------------- stream handlers
pushMessagePrepend(ls, channelId, message) ==
    WithChannel(ls, channelId,
        [StateOf(ls, channelId) EXCEPT !.messages =
            SliceLast(<<message>> \o StateOf(ls, channelId).messages, MAX_MESSAGES)])
pushMessageKeepsOldest(ls, channelId, message) ==
    WithChannel(ls, channelId,
        [StateOf(ls, channelId) EXCEPT !.messages =
            SliceLastDropNewest(Append(StateOf(ls, channelId).messages, message),
                                MAX_MESSAGES)])
pushMessageFreshState(ls, channelId, message) ==
    WithChannel(ls, channelId,
        [EmptyLiveState EXCEPT
            !.messages = SliceLast(Append(StateOf(ls, channelId).messages, message),
                                   MAX_MESSAGES),
            !.historyLoaded = StateOf(ls, channelId).historyLoaded])
pushMessageUncapped(ls, channelId, message) ==
    WithChannel(ls, channelId,
        [StateOf(ls, channelId) EXCEPT !.messages =
            Append(StateOf(ls, channelId).messages, message)])
pushMessage(ls, channelId, message) ==
    LET existing == StateOf(ls, channelId)
        messages == SliceLast(Append(existing.messages, message), MAX_MESSAGES)
    IN WithChannel(ls, channelId, [existing EXCEPT !.messages = messages])

\* setLiveStates((prev) => ({ ...prev, [id]: { ...prev[id], isTyping, messages, historyLoaded } }))
SetTypingKeepsTrue(ls, channelId, isTyping) ==
    WithChannel(ls, channelId,
        [isTyping |-> isTyping \/ StateOf(ls, channelId).isTyping,
         messages |-> StateOf(ls, channelId).messages,
         historyLoaded |-> StateOf(ls, channelId).historyLoaded])
SetTypingResetsLoaded(ls, channelId, isTyping) ==
    WithChannel(ls, channelId,
        [isTyping |-> isTyping,
         messages |-> StateOf(ls, channelId).messages,
         historyLoaded |-> FALSE])
SetTyping(ls, channelId, isTyping) ==
    WithChannel(ls, channelId,
        [isTyping |-> isTyping,
         messages |-> IF channelId \in DOMAIN ls THEN ls[channelId].messages ELSE <<>>,
         historyLoaded |-> IF channelId \in DOMAIN ls THEN ls[channelId].historyLoaded
                           ELSE FALSE])

\* queryClient.invalidateQueries({ queryKey: ["channels"] }): one more request
\* for a fresh channel list
invalidateQueriesSkipped(n) == n
invalidateQueries(n) == n + 1

\* the server persists the row of a user message and emits inbound_message;
\* the open connection delivers the event to the handler
handleInboundMessage(channel_id) ==
    /\ nextSid <= MaxServerMessages
    /\ LET event == [channel_id |-> channel_id, sender_id |-> "u1", text |-> nextSid]
           message == [id |-> [kind |-> "in", ts |-> clock, rnd |-> rnd + 1],
                       sender |-> "user", senderName |-> event.sender_id,
                       text |-> event.text, timestamp |-> clock]
       IN liveStates' = pushMessage(liveStates, event.channel_id, message)
    /\ rnd' = rnd + 1
    /\ log' = [log EXCEPT ![channel_id] = Append(@, Row(nextSid, "user", serverClock))]
    /\ nextSid' = nextSid + 1
    /\ invalidations' = invalidateQueries(invalidations)
    /\ UNCHANGED streamVars
    /\ UNCHANGED <<fetch, fetchCount, clock, serverClock>>

\* the same for an assistant message and outbound_message
handleOutboundMessage(channel_id) ==
    /\ nextSid <= MaxServerMessages
    /\ LET event == [channel_id |-> channel_id, text |-> nextSid]
           message == [id |-> [kind |-> "out", ts |-> clock, rnd |-> rnd + 1],
                       sender |-> "bot", senderName |-> UNDEFINED,
                       text |-> event.text, timestamp |-> clock]
       IN liveStates' = SetTyping(pushMessage(liveStates, event.channel_id, message),
                                  event.channel_id, FALSE)
    /\ rnd' = rnd + 1
    /\ log' = [log EXCEPT ![channel_id] = Append(@, Row(nextSid, "assistant", serverClock))]
    /\ nextSid' = nextSid + 1
    /\ invalidations' = invalidateQueries(invalidations)
    /\ UNCHANGED streamVars
    /\ UNCHANGED <<fetch, fetchCount, clock, serverClock>>

handleTypingState(channel_id, is_typing) ==
    /\ LET event == [channel_id |-> channel_id, is_typing |-> is_typing]
       IN liveStates' = SetTyping(liveStates, event.channel_id, event.is_typing)
    /\ UNCHANGED streamVars
    /\ UNCHANGED invalidations
    /\ UNCHANGED <<fetch, fetchCount, clock, rnd, serverClock, log, nextSid>>

Next ==
    \/ Tick
    \/ ServerTick
    \/ \E c \in Channels : ServerRespond(c)
    \/ \E list \in SUBSET Channels : HistoryLoadEffect(list)
    \/ \E c \in Channels : FetchThen(c)
    \/ \E c \in Channels : FetchCatch(c)
    \/ \E c \in Channels : handleInboundMessage(c)
    \/ \E c \in Channels : handleOutboundMessage(c)
    \/ \E c \in Channels, b \in BOOLEAN : handleTypingState(c, b)

Spec == Init /\ [][Next]_vars

\* ======================================================== useEventSource
EventTypes == {"inbound_message", "typing_state"}
\* event.data of a frame: a JSON object, a JSON number, and text that is no JSON
Payloads == {"{}", "7", "hi"}
MaxRenders == 2
MaxSources == 3
MaxFrames == 2
RECONNECT_DELAY == 2000

\* JSON.parse(event.data): the value, or a SyntaxError
JsonParse(data) ==
    IF data = "{}" THEN [ok |-> TRUE, value |-> [type |-> "object", of |-> "{}"]]
    ELSE IF data = "7" THEN [ok |-> TRUE, value |-> [type |-> "number", of |-> "7"]]
    ELSE [ok |-> FALSE, value |-> NULL]
\* event.data as it arrived: a string
Raw(data) == [type |-> "string", of |-> data]

Invocation(handlers, eventType, frame, data) ==
    [frame |-> frame, eventType |-> eventType, handler |-> handlers[eventType],
     data |-> data]

\* the listener registered for eventType, run for one frame: the invocations
\* it makes. throws: the handler throws when it is given the parsed value.
ListenerDropsUnparsed(handlers, eventType, data, throws, frame) ==
    IF eventType \notin DOMAIN handlers \/ ~JsonParse(data).ok THEN << >>
    ELSE <<Invocation(handlers, eventType, frame, JsonParse(data).value)>>
Listener(handlers, eventType, data, throws, frame) ==
    IF eventType \notin DOMAIN handlers THEN << >>
    ELSE IF JsonParse(data).ok
         THEN IF throws
              THEN <<Invocation(handlers, eventType, frame, JsonParse(data).value),
                     Invocation(handlers, eventType, frame, Raw(data))>>
              ELSE <<Invocation(handlers, eventType, frame, JsonParse(data).value)>>
         ELSE <<Invocation(handlers, eventType, frame, Raw(data))>>

\* EventSource.close()
Close(srcs, i) ==
    IF i = 0 THEN srcs ELSE [srcs EXCEPT ![i].readyState = "closed"]

\* connect(): close the current source, open a new one and register a
\* listener for every key the mapping has now
connectWithoutListeners(srcs, current, handlers) ==
    Append(Close(srcs, current), [readyState |-> "open", listeners |-> {}])
connect(srcs, current, handlers) ==
    Append(Close(srcs, current), [readyState |-> "open", listeners |-> DOMAIN handlers])

\* clearTimeout(id)
clearTimeoutNoop(pending, id) == pending
clearTimeout(pending, id) == {t \in pending : t.id # id}

\* a render of the component that uses the hook: handlersRef.current = handlers
Render(keys) ==
    /\ phase # "closed"
    /\ renders < MaxRenders
    /\ renders' = renders + 1
    /\ handlersRef' = [t \in keys |-> renders + 1]
    /\ UNCHANGED <<phase, sources, eventSourceRef, reconnectTimeout, timers,
                   frames, calls>>
    /\ UNCHANGED storeVars

\* the effect, after the first render
Effect(enabled) ==
    /\ phase = "init"
    /\ renders > 0
    /\ IF enabled
       THEN /\ sources' = connect(sources, eventSourceRef, handlersRef)
            /\ eventSourceRef' = Len(sources) + 1
            /\ phase' = "active"
       ELSE /\ phase' = "disabled"
            /\ UNCHANGED <<sources, eventSourceRef>>
    /\ UNCHANGED <<handlersRef, renders, reconnectTimeout, timers, frames, calls>>
    /\ UNCHANGED storeVars

\* the browser delivers a frame on an open source
SourceEvent(i, eventType, data, throws) ==
    /\ i \in 1..Len(sources)
    /\ sources[i].readyState = "open"
    /\ frames < MaxFrames
    /\ frames' = frames + 1
    /\ calls' = IF eventType \in sources[i].listeners
                THEN calls \o Listener(handlersRef, eventType, data, throws, frames + 1)
                ELSE calls
    /\ UNCHANGED <<handlersRef, renders, phase, sources, eventSourceRef,
                   reconnectTimeout, timers>>
    /\ UNCHANGED storeVars

\* source.onerror
SourceErrorKeepsOpen(i) ==
    /\ i \in 1..Len(sources)
    /\ sources[i].readyState = "open"
    /\ Len(sources) + Cardinality(timers) < MaxSources
    /\ reconnectTimeout' = reconnectTimeout + 1
    /\ timers' = timers \cup {[id |-> reconnectTimeout + 1, delay |-> RECONNECT_DELAY]}
    /\ UNCHANGED <<handlersRef, renders, phase, sources, eventSourceRef, frames, calls>>
    /\ UNCHANGED storeVars
SourceError(i) ==
    /\ i \in 1..Len(sources)
    /\ sources[i].readyState = "open"
    /\ Len(sources) + Cardinality(timers) < MaxSources
    /\ sources' = Close(sources, i)
    /\ reconnectTimeout' = reconnectTimeout + 1
    /\ timers' = timers \cup {[id |-> reconnectTimeout + 1, delay |-> RECONNECT_DELAY]}
    /\ UNCHANGED <<handlersRef, renders, phase, eventSourceRef, frames, calls>>
    /\ UNCHANGED storeVars

\* the reconnect timer fires: connect()
TimeoutGivesUp(id) ==
    /\ \E t \in timers : t.id = id
    /\ Len(sources) < 2
    /\ timers' = {t \in timers : t.id # id}
    /\ sources' = connect(sources, eventSourceRef, handlersRef)
    /\ eventSourceRef' = Len(sources) + 1
    /\ UNCHANGED <<handlersRef, renders, phase, reconnectTimeout, frames, calls>>
    /\ UNCHANGED storeVars
Timeout(id) ==
    /\ \E t \in timers : t.id = id
    /\ timers' = {t \in timers : t.id # id}
    /\ sources' = connect(sources, eventSourceRef, handlersRef)
    /\ eventSourceRef' = Len(sources) + 1
    /\ UNCHANGED <<handlersRef, renders, phase, reconnectTimeout, frames, calls>>
    /\ UNCHANGED storeVars

\* the cleanup of the effect
Cleanup ==
    /\ phase = "active"
    /\ phase' = "closed"
    /\ timers' = IF reconnectTimeout # 0 THEN clearTimeout(timers, reconnectTimeout)
                 ELSE timers
    /\ sources' = Close(sources, eventSourceRef)
    /\ UNCHANGED <<handlersRef, renders, eventSourceRef, reconnectTimeout, frames, calls>>
    /\ UNCHANGED storeVars

StreamNext ==
    \/ \E keys \in SUBSET EventTypes : Render(keys)
    \/ \E enabled \in BOOLEAN : Effect(enabled)
    \/ \E i \in 1..MaxSources, eventType \in EventTypes, data \in Payloads,
          throws \in BOOLEAN : SourceEvent(i, eventType, data, throws)
    \/ \E i \in 1..MaxSources : SourceError(i)
    \/ \E id \in 1..MaxSources : Timeout(id)
    \/ Cleanup

StreamSpec == Init /\ [][StreamNext]_vars

\* timers that were set and not cleared do fire
StreamFairSpec ==
    Init /\ [][StreamNext]_vars /\ WF_vars(\E id \in 1..MaxSources : Timeout(id))

\* ================================================================ claims
Messages(c) == IF c \in DOMAIN liveStates THEN liveStates[c].messages ELSE <<>>
Range(s) == {s[i] : i \in 1..Len(s)}
IsLive(m) == m.id.kind # "srv"
Merged(c) == fetch[c].status = "merged"
\* the merge of c was the last operation that changed a message sequence
JustMerged(c) == Merged(c) /\ fetch[c].rndAtMerge = rnd
History(c) == HistoryOf(fetch[c].data)
Cutoff(c) == IF fetch[c].data = <<>> THEN 0
             ELSE fetch[c].data[Len(fetch[c].data)].created_at
KeptLive(c) == SelectSeq(fetch[c].seen, LAMBDA m : m.timestamp > Cutoff(c))
Tail50(s) == IF Len(s) <= 50 THEN s ELSE [i \in 1..50 |-> s[i + Len(s) - 50]]

\* C1: in every reachable state every channel's sequence holds at most 50
\* messages.
C1_AtMostFifty ==
    \A c \in DOMAIN liveStates : Len(liveStates[c].messages) <= 50

\* a merge of a full history page kept a live message, and the sequence is full
C1_Witness ==
    \E c \in DOMAIN liveStates :
        /\ Merged(c)
        /\ Len(fetch[c].data) = 50
        /\ Len(liveStates[c].messages) = 50
        /\ IsLive(liveStates[c].messages[50])

\* C2: in every reachable state every channel's sequence is sorted ascending
\* by timestamp.
C2_SortedByTimestamp ==
    \A c \in DOMAIN liveStates :
        \A i \in 1..(Len(liveStates[c].messages) - 1) :
            liveStates[c].messages[i].timestamp <= liveStates[c].messages[i + 1].timestamp

\* C3: right after a history load resolves, the sequence is the history, then
\* the messages of the sequence read at that moment that are strictly newer
\* than the last history timestamp (0 for an empty history), cut to the last
\* 50; with an empty history every live message is kept, and a live message at
\* or before the last history timestamp is gone.
C3_MergeRule ==
    \A c \in Channels :
        JustMerged(c) =>
            /\ Messages(c) = Tail50(History(c) \o KeptLive(c))
            /\ fetch[c].data = <<>> => Messages(c) = fetch[c].seen
            /\ \A m \in Range(fetch[c].seen) :
                   m.timestamp <= Cutoff(c) => m \notin Range(Messages(c))

\* one merge kept a live message and discarded another one
C3_Witness ==
    \E c \in Channels :
        /\ JustMerged(c)
        /\ fetch[c].data # <<>>
        /\ \E m \in Range(fetch[c].seen) : m \in Range(Messages(c))
        /\ \E m \in Range(fetch[c].seen) : m \notin Range(Messages(c))

\* C4: a live message appended between the dispatch of the fetch and its
\* completion, strictly newer than the last history timestamp, is in the
\* sequence right after the merge, unless the cap evicts it.
C4_MergeReadsCurrentBuffer ==
    \A c \in Channels :
        JustMerged(c) =>
            \A i \in 1..Len(KeptLive(c)) :
                (/\ KeptLive(c)[i] \notin Range(fetch[c].prev)
                 /\ Len(KeptLive(c)) - i + 1 <= 50)
                    => KeptLive(c)[i] \in Range(Messages(c))

\* a message that arrived while the fetch was in flight survived the merge
C4_Witness ==
    \E c \in Channels :
        /\ JustMerged(c)
        /\ \E m \in Range(fetch[c].seen) :
               /\ m \notin Range(fetch[c].prev)
               /\ m.timestamp > Cutoff(c)
               /\ m \in Range(Messages(c))

\* C5: a message delivered over the stream while the fetch was in flight and
\* contained in the fetched history appears exactly once right after the
\* merge, given the live copy's timestamp is at or after the creation time.
C5_NoDuplicateAfterMerge ==
    \A c \in Channels :
        JustMerged(c) =>
            \A h \in Range(History(c)) :
                \A m \in Range(fetch[c].seen) :
                    (/\ m \notin Range(fetch[c].prev)
                     /\ m.text = h.text
                     /\ m.timestamp >= h.timestamp)
                        => Cardinality({i \in 1..Len(Messages(c)) :
                                           Messages(c)[i].text = h.text}) = 1

\* C6: at most one history fetch is ever issued for a channel.
C6_AtMostOneFetch ==
    \A c \in Channels : fetchCount[c] <= 1

\* both channels were fetched once: one was first seen in a live event and
\* its fetch was merged, the other one's fetch failed
C6_Witness ==
    \E c, d \in Channels :
        /\ c # d
        /\ fetchCount[c] = 1 /\ Merged(c) /\ fetch[c].prev # <<>>
        /\ fetchCount[d] = 1 /\ fetch[d].status = "failed"

\* C7: once a channel's marker is set, no later operation resets it.
C7_MarkerNeverReverts ==
    [][\A c \in Channels :
          (c \in DOMAIN liveStates /\ liveStates[c].historyLoaded)
              => (c \in DOMAIN liveStates' /\ liveStates'[c].historyLoaded)]_vars

\* the marker is still set after a merge followed by an outbound_message
C7_Witness ==
    \E c \in DOMAIN liveStates :
        /\ liveStates[c].historyLoaded
        /\ Merged(c)
        /\ \E m \in Range(liveStates[c].messages) :
               m.sender = "bot" /\ IsLive(m) /\ m.id.rnd > fetch[c].rndAtMerge

\* C8 as stated: while the fetch of a channel is dispatched and not resolved,
\* the channel is not reported as loaded.
C8_NotLoadedWhileInFlight ==
    \A c \in Channels :
        fetch[c].status \in {"pending", "fulfilled"}
            => ~(c \in DOMAIN liveStates /\ liveStates[c].historyLoaded)

\* C8 as amended: the marker reads loaded from the moment the fetch is
\* dispatched, so also while the fetch is in flight, and never before.
C8_LoadedFromDispatch ==
    \A c \in Channels :
        (c \in DOMAIN liveStates /\ liveStates[c].historyLoaded)
            <=> fetch[c].status # "none"

\* the fetch is in flight and the marker already reads loaded
C8_Witness ==
    \E c \in DOMAIN liveStates :
        fetch[c].status = "pending" /\ liveStates[c].historyLoaded

\* C9: a message event appends exactly one new message as the last element
\* of its channel's sequence, whatever the load state; past 50 elements only
\* the front is evicted.
C9_AppendsOneAsLast ==
    [][rnd' = rnd + 1 =>
        \A c \in Channels :
            IF Len(log'[c]) = Len(log[c]) + 1
            THEN /\ c \in DOMAIN liveStates'
                 /\ LET old == Messages(c)
                        new == liveStates'[c].messages
                        n == Len(new)
                        drop == Len(old) + 1 - n
                    IN /\ n = IF Len(old) < 50 THEN Len(old) + 1 ELSE 50
                       /\ new[n].id.rnd = rnd'
                       /\ new[n].text = log'[c][Len(log'[c])].content
                       /\ new[n] \notin Range(old)
                       /\ \A i \in 1..(n - 1) : new[i] = old[i + drop]
            ELSE /\ (c \in DOMAIN liveStates') = (c \in DOMAIN liveStates)
                 /\ c \in DOMAIN liveStates => liveStates'[c] = liveStates[c]]_vars

\* the newest message is the last of a full sequence whose front was evicted
C9_Witness ==
    \E c \in DOMAIN liveStates :
        /\ Len(liveStates[c].messages) = 50
        /\ liveStates[c].messages[50].id.rnd = rnd
        /\ IsLive(liveStates[c].messages[50])
        /\ Merged(c)
        /\ liveStates[c].messages[1].text # fetch[c].data[1].content

\* C10: the messages of live events that are in a sequence appear in the
\* order the events were delivered (ids are drawn in delivery order).
C10_DeliveryOrder ==
    \A c \in DOMAIN liveStates :
        LET live == {i \in 1..Len(liveStates[c].messages) :
                        IsLive(liveStates[c].messages[i])}
        IN \A i, j \in live :
               i < j => liveStates[c].messages[i].id.rnd < liveStates[c].messages[j].id.rnd

\* a message delivered before the merge precedes one delivered after it
C10_Witness ==
    \E c \in DOMAIN liveStates :
        /\ Merged(c)
        /\ \E i, j \in 1..Len(liveStates[c].messages) :
               /\ i < j
               /\ IsLive(liveStates[c].messages[i])
               /\ IsLive(liveStates[c].messages[j])
               /\ liveStates[c].messages[i].id.rnd <= fetch[c].rndAtMerge
               /\ liveStates[c].messages[j].id.rnd > fetch[c].rndAtMerge

\* liveState?.isTyping ?? false, as the channel card reads it
IsTyping(c) == c \in DOMAIN liveStates /\ liveStates[c].isTyping

\* C11: right after a typing_state event for a channel the indicator equals
\* the event's is_typing; right after an outbound_message event for a channel
\* it is false; in every reachable state, so whatever happened before.
C11_TypingFollowsEvents ==
    [][\A c \in Channels :
          /\ \A b \in BOOLEAN :
                handleTypingState(c, b)
                    => (c \in DOMAIN liveStates' /\ liveStates'[c].isTyping = b)
          /\ handleOutboundMessage(c)
                => (c \in DOMAIN liveStates' /\ liveStates'[c].isTyping = FALSE)]_vars

\* an outbound_message was the last message event and its channel's indicator
\* is off, while the indicator of the other channel is on
C11_Witness ==
    \E c, d \in DOMAIN liveStates :
        /\ c # d
        /\ liveStates[d].isTyping
        /\ ~liveStates[c].isTyping
        /\ liveStates[c].messages # <<>>
        /\ LET m == liveStates[c].messages[Len(liveStates[c].messages)]
           IN m.id.kind = "out" /\ m.id.rnd = rnd

\* C12: only typing_state and outbound_message events change a channel's
\* indicator: every step that changes it is one of the two, for that channel.
C12_OnlyTypingEventsChangeIndicator ==
    [][\A c \in Channels :
          (IsTyping(c)' # IsTyping(c))
              => \/ \E b \in BOOLEAN : handleTypingState(c, b)
                 \/ handleOutboundMessage(c)]_vars

\* the indicator is on in a channel that holds an inbound message received
\* after its history was merged
C12_Witness ==
    \E c \in DOMAIN liveStates :
        /\ liveStates[c].isTyping
        /\ Merged(c)
        /\ \E m \in Range(liveStates[c].messages) :
               m.id.kind = "in" /\ m.id.rnd > fetch[c].rndAtMerge

\* C13 as stated: a failed history load leaves the channel's sequence empty
\* and the channel marked loaded.
C13_FailedLoadLeavesEmpty ==
    [][\A c \in Channels :
          (fetch[c].status = "pending" /\ fetch'[c].status = "failed")
              => /\ Messages(c)' = <<>>
                 /\ c \in DOMAIN liveStates' /\ liveStates'[c].historyLoaded]_vars

\* C13 as amended: a failed load changes no live state, so the sequence keeps
\* the live messages received so far and the channel stays marked loaded; from
\* then on the channel is never fetched again and message events still append.
C13_FailedLoadKeepsLiveState ==
    [][\A c \in Channels :
          /\ (fetch[c].status = "pending" /\ fetch'[c].status = "failed")
                => /\ liveStates' = liveStates
                   /\ c \in DOMAIN liveStates' /\ liveStates'[c].historyLoaded
          /\ fetch[c].status = "failed"
                => /\ fetch'[c].status = "failed"
                   /\ fetchCount'[c] = fetchCount[c]
                   /\ c \in DOMAIN liveStates' /\ liveStates'[c].historyLoaded
                   /\ Len(log'[c]) = Len(log[c]) + 1
                         => /\ Messages(c)' # <<>>
                            /\ Messages(c)'[Len(Messages(c)')].id.rnd = rnd']_vars

\* the fetch failed; the sequence holds a message received before the fetch
\* was dispatched and one received after that
C13_Witness ==
    \E c \in DOMAIN liveStates :
        /\ fetch[c].status = "failed"
        /\ liveStates[c].historyLoaded
        /\ fetch[c].prev # <<>>
        /\ \A m \in Range(fetch[c].prev) : m \in Range(liveStates[c].messages)
        /\ \E m \in Range(liveStates[c].messages) : m \notin Range(fetch[c].prev)

\* C19: applying the merge a second time, with the same history, to the state
\* the first merge produced (no live event in between) yields the same
\* sequence.
C19_MergeIdempotent ==
    \A c \in Channels :
        JustMerged(c) =>
            LET again == MergeHistory(liveStates, c, History(c))
            IN /\ c \in DOMAIN again
               /\ again[c].messages = liveStates[c].messages

\* the first merge cut a full history page plus a kept live message to the cap
C19_Witness ==
    \E c \in Channels :
        /\ JustMerged(c)
        /\ KeptLive(c) # <<>>
        /\ Len(History(c)) + Len(KeptLive(c)) > 50
        /\ MergeHistory(liveStates, c, History(c)) = liveStates

\* C20: every inbound_message and every outbound_message event requests a
\* fresh channel list once, and a typing_state event requests none.
C20_MessageEventsInvalidate ==
    [][\A c \in Channels :
          /\ (handleInboundMessage(c) \/ handleOutboundMessage(c))
                => invalidations' = invalidations + 1
          /\ Len(log'[c]) = Len(log[c]) + 1 => invalidations' = invalidations + 1
          /\ \A b \in BOOLEAN :
                handleTypingState(c, b) => invalidations' = invalidations]_vars

\* two message events and a typing event were handled
C20_Witness ==
    /\ invalidations = 2
    /\ \E c \in Channels : IsTyping(c) /\ Messages(c) = << >>
    /\ \E c \in Channels, i, j \in 1..2 :
          /\ c \in DOMAIN liveStates
          /\ Len(liveStates[c].messages) >= 2
          /\ liveStates[c].messages[i].id.kind = "in"
          /\ liveStates[c].messages[j].id.kind = "out"

\* ------------------------------------------------- stream client claims
Open(i) == sources[i].readyState = "open"

\* C14: the cleanup, whenever it runs, leaves no open connection and no
\* pending reconnect timer; after it no connection is opened and no handler
\* is invoked.
C14_CloseTearsDown ==
    [][/\ phase' = "closed"
          => /\ timers' = {}
             /\ \A i \in 1..Len(sources') : sources'[i].readyState = "closed"
       /\ phase = "closed"
          => /\ Len(sources') = Len(sources)
             /\ calls' = calls]_vars

\* closed during the reconnect delay of the second failure, after a handler ran
C14_Witness ==
    /\ phase = "closed"
    /\ reconnectTimeout = 2
    /\ Len(sources) = 2
    /\ calls # << >>

\* C15: a failure closes the failed connection and schedules exactly one
\* reconnect after the fixed delay; the reconnect opens a connection with a
\* listener for every type of the mapping, and a frame of such a type on the
\* new connection reaches its handler.
C15_FailureSchedulesOneReconnect ==
    [][/\ \A i \in 1..Len(sources) :
             SourceError(i)
                => /\ sources'[i].readyState = "closed"
                   /\ Cardinality(timers') = 1
                   /\ \A t \in timers' : t.delay = RECONNECT_DELAY /\ t \notin timers
       /\ \A t \in timers :
             Timeout(t.id)
                => /\ Len(sources') = Len(sources) + 1
                   /\ sources'[Len(sources')].readyState = "open"
                   /\ sources'[Len(sources')].listeners = DOMAIN handlersRef
                   /\ timers' = {}
       /\ \A i \in 2..Len(sources), e \in EventTypes :
             (frames' = frames + 1 /\ Open(i) /\ e \in DOMAIN handlersRef
                 /\ e \in sources[i].listeners
                 /\ \E d \in Payloads, th \in BOOLEAN : SourceEvent(i, e, d, th))
                => \E k \in 1..Len(calls') :
                      /\ k > Len(calls)
                      /\ calls'[k].eventType = e
                      /\ calls'[k].handler = handlersRef[e]]_vars

\* a handler ran on the first connection and again on the second
C15_Witness ==
    /\ Len(sources) = 2
    /\ Len(calls) = 2
    /\ calls[1].eventType = calls[2].eventType
    /\ calls[1].frame = 1 /\ calls[2].frame = 2
    /\ reconnectTimeout = 1
    /\ timers = {}
    /\ renders = 1
    /\ phase = "active"

\* C16: while the client is not closed, every failure is followed by a new
\* connection, however many failures came before.
C16_AlwaysReconnects ==
    \A n \in 1..MaxSources :
        (Len(sources) = n /\ timers # {}) ~> (Len(sources) > n \/ phase = "closed")

\* connected again after as many failures as the bound allows
C16_Witness ==
    /\ Len(sources) = MaxSources
    /\ reconnectTimeout = MaxSources - 1
    /\ Open(MaxSources)
    /\ phase = "active"

\* C17: after the mapping was replaced, a frame of any type the mapping has
\* now, on the open connection, reaches the handler of the mapping as it is
\* now, and no connection is opened.
C17_NewMappingDispatched ==
    [][\A i \in 1..Len(sources), e \in EventTypes :
          (e \in DOMAIN handlersRef
              /\ \E d \in Payloads, th \in BOOLEAN : SourceEvent(i, e, d, th))
             => /\ Len(sources') = Len(sources)
                /\ Len(calls') > Len(calls)
                /\ calls'[Len(calls) + 1].handler = handlersRef[e]]_vars

\* C18: a frame of a type that has a listener and a handler reaches the
\* handler, first with the parsed value if event.data is JSON, and with
\* event.data itself if it is not.
C18_NoFrameDropped ==
    [][\A i \in 1..Len(sources), e \in EventTypes, d \in Payloads, th \in BOOLEAN :
          (e \in sources[i].listeners /\ e \in DOMAIN handlersRef
              /\ SourceEvent(i, e, d, th))
             => /\ Len(calls') > Len(calls)
                /\ calls'[Len(calls) + 1] =
                      [frame |-> frames', eventType |-> e, handler |-> handlersRef[e],
                       data |-> IF JsonParse(d).ok THEN JsonParse(d).value
                                ELSE Raw(d)]]_vars

\* one frame was delivered parsed and one as the text it arrived as
C18_Witness ==
    \E k, l \in 1..Len(calls) :
        /\ calls[k].data = Raw("hi")
        /\ calls[l].data.type = "object"

\* C21: a frame of a type that has a listener and a handler causes exactly
\* one invocation of the handler, also when the handler throws on the parsed
\* value.
C21_ExactlyOneInvocation ==
    [][\A i \in 1..Len(sources), e \in EventTypes, d \in Payloads, th \in BOOLEAN :
          (e \in sources[i].listeners /\ e \in DOMAIN handlersRef
              /\ SourceEvent(i, e, d, th))
             => Len(calls') = Len(calls) + 1]_vars

\* C22: at most one source is open, at most one reconnect timer is pending,
\* and never both at once.
OpenSources == {i \in 1..Len(sources) : Open(i)}

C22_OneConnectionOrOneTimer ==
    /\ Cardinality(OpenSources) <= 1
    /\ Cardinality(timers) <= 1
    /\ ~(OpenSources # {} /\ timers # {})

\* the second connection failed too and its reconnect timer is pending
C22_Witness ==
    /\ Len(sources) = 2
    /\ OpenSources = {}
    /\ Cardinality(timers) = 1
    /\ phase = "active"
====
